---- MODULE Spec2Model ----
(***************************************************************************)
(* FlexSix: the shopping-cart demo page.                                   *)
(*                                                                         *)
(* src/src/App.jsx      ProductList (async/await, useFetch, loading guard) *)
(*                      and AddProductForm.                                *)
(* src/unnamed/part_000 ProductList written with promise chains.           *)
(*                                                                         *)
(* A JavaScript string is a sequence of one-character strings, an array a  *)
(* sequence, an object a record.  A handler closes over the state of the   *)
(* render it was created in, so a request in flight carries the cart or    *)
(* the products array its continuation will use ("seen").  A state update  *)
(* and the re-render that follows it are one step.                         *)
(***************************************************************************)
EXTENDS Integers, Sequences, FiniteSets, TLC

VARIABLES
    products,   \* App.jsx useFetch: data (ProductList calls it products)
    loading,    \* App.jsx useFetch: loading
    cart,       \* App.jsx ProductList: cart
    search,     \* App.jsx ProductList: search
    name,       \* App.jsx AddProductForm: name
    price,      \* App.jsx AddProductForm: price
    message,    \* App.jsx AddProductForm: message
    inflight,   \* App.jsx: the fetch calls not yet settled
    calls,      \* number of handler invocations so far
    sent,       \* number of fetch calls so far (numbers the requests)
    last,       \* the request ProductList settled last, with its response
    products0,  \* part_000 ProductList: products
    cart0,      \* part_000 ProductList: cart
    search0,    \* part_000 ProductList: search
    inflight0   \* part_000: the fetch calls not yet settled

varsList == <<products, loading, cart, search>>
varsForm == <<name, price, message>>
vars0    == <<products0, cart0, search0, inflight0>>
vars     == <<products, loading, cart, search, name, price, message, inflight, calls,
              sent, last, products0, cart0, search0, inflight0>>

-----------------------------------------------------------------------------
(* Bounds of the model. *)

\* Handler invocations (Add to Cart, Remove, Update Price, Submit) per run.
MaxCalls == 3
\* Length of the products array the filter is checked on.
MaxProducts == 2
\* Length of the search strings the filter is checked on.
MaxSearchLen == 2

-----------------------------------------------------------------------------
(* Strings. *)

Alphabet == {"a", "A", "b"}

\* String.prototype.toLowerCase, one character.
LowerChar(c) ==
    CASE c = "A" -> "a"
      [] c = "B" -> "b"
      [] OTHER   -> c

\* String.prototype.toLowerCase.
toLowerCase(s) == [i \in 1..Len(s) |-> LowerChar(s[i])]

\* String.prototype.includes: the first position from k at which t occurs in s.
RECURSIVE includesFrom(_, _, _)
includesFrom(s, t, k) ==
    IF k + Len(t) > Len(s) THEN FALSE
    ELSE IF SubSeq(s, k + 1, k + Len(t)) = t THEN TRUE
    ELSE includesFrom(s, t, k + 1)

includes(s, t) == includesFrom(s, t, 0)

\* The strings of at most n characters.
RECURSIVE StringsUpTo(_)
StringsUpTo(n) ==
    IF n = 0 THEN {<<>>}
    ELSE LET shorter == StringsUpTo(n - 1)
         IN  shorter \cup {Append(s, c) : s \in shorter, c \in Alphabet}

-----------------------------------------------------------------------------
(* ProductList: the search filter. *)

\* The filter without the lower-casing of the search string.
MatchesCaseSensitiveSearch(product, s) ==
    includes(toLowerCase(product.name), s)

\* product.name.toLowerCase().includes(search.toLowerCase())
Matches(product, s) ==
    includes(toLowerCase(product.name), toLowerCase(s))

\* Array.prototype.filter with the predicate above.
RECURSIVE filterFrom(_, _, _)
filterFrom(ps, s, i) ==
    IF i > Len(ps) THEN <<>>
    ELSE IF Matches(ps[i], s) THEN <<ps[i]>> \o filterFrom(ps, s, i + 1)
    ELSE filterFrom(ps, s, i + 1)

filteredProducts == filterFrom(products, search, 1)

-----------------------------------------------------------------------------
(* The placeholder API. *)

\* What GET /products may answer with.
Catalogs ==
    { << [id |-> 1, name |-> <<"A", "b">>, price |-> 10],
         [id |-> 2, name |-> <<"b">>, price |-> 20] >>,
      << >> }

\* Every id updateProductPrice may be given: those of the catalog and one that
\* no product has.
Ids == {1, 2, 3}

\* What the user may type into the search box and into the form.
SearchInputs == {<<>>, <<"A">>}
NameInputs   == {<<>>, <<"a">>}
PriceInputs  == {<<>>, <<"5">>}

NoBody == <<>>

\* fetch rejects (a network error).
Rejected == [kind |-> "rejected", ok |-> FALSE, body |-> NoBody]
\* fetch resolves and the body is not JSON: response.json() rejects.
Text(ok) == [kind |-> "text", ok |-> ok, body |-> NoBody]
\* fetch resolves and response.json() resolves with body.
Json(ok, body) == [kind |-> "json", ok |-> ok, body |-> body]

\* The answers the server may give to request r.  POST /cart returns the added
\* item; PUT /products/{id} returns the product it was sent, at the price sent
\* or at a price of its own.
Responses(r) ==
    CASE r.op = "GET"    -> {Rejected, Text(TRUE)} \cup {Json(TRUE, c) : c \in Catalogs}
      [] r.op = "POST"   -> {Rejected, Text(TRUE), Json(TRUE, r.body)}
      [] r.op = "DELETE" -> {Rejected, Text(TRUE), Text(FALSE)}
      [] r.op = "PUT"    -> {Rejected, Text(TRUE), Json(TRUE, r.body),
                             Json(TRUE, [r.body EXCEPT !.price = 0])}
      [] r.op = "SUBMIT" -> {Rejected, Text(TRUE), Text(FALSE),
                             Json(TRUE, NoBody), Json(FALSE, NoBody)}

\* A fetch call in flight.  rid numbers it, key is the id in its URL, body what
\* it sends, seen the cart or products array its handler closed over, alone
\* whether no other cart request has been in flight since it was issued.
Request(rid, op, key, body, seen, alone) ==
    [rid |-> rid, op |-> op, key |-> key, body |-> body, seen |-> seen, alone |-> alone]

NoRequest == Request(0, "none", 0, NoBody, <<>>, FALSE)
NoLast    == [req |-> NoRequest, resp |-> Rejected]

CartOps == {"POST", "DELETE"}

\* The requests in flight once another cart request is issued.
Overlapped(reqs) ==
    {IF q.op \in CartOps THEN [q EXCEPT !.alone = FALSE] ELSE q : q \in reqs}

\* Whether a cart request issued now has the cart to itself.
NoCartRequest(reqs) == \A q \in reqs : q.op \notin CartOps

\* useEffect(() => { fetchData() }, [url]) has run: GET /products is in flight.
FetchRequest == Request(1, "GET", 0, NoBody, <<>>, FALSE)

\* A handler that calls fetch again when its request fails.
SettledWithRetry(r, resp) ==
    IF resp.kind = "rejected"
    THEN [inflight |-> (inflight \ {r}) \cup {[r EXCEPT !.rid = sent + 1]},
          sent |-> sent + 1]
    ELSE [inflight |-> inflight \ {r}, sent |-> sent]

\* The request has settled: its handler resumes once and calls fetch no more.
Settled(r, resp) == [inflight |-> inflight \ {r}, sent |-> sent]

-----------------------------------------------------------------------------
(* App.jsx: useFetch. *)

\* setData(jsonData), reached only when both awaits resolve.
DataAfterFetch(resp) ==
    IF resp.kind = "json" THEN resp.body ELSE products

\* setLoading(false) without the finally: only after setData.
LoadingAfterFetchNoFinally(resp) ==
    IF resp.kind = "json" THEN FALSE ELSE loading

\* finally { setLoading(false) }
LoadingAfterFetch(resp) == FALSE

fetchDataSettled(r, resp) ==
    /\ r \in inflight
    /\ r.op = "GET"
    /\ resp \in Responses(r)
    /\ products' = DataAfterFetch(resp)
    /\ loading' = LoadingAfterFetch(resp)
    /\ inflight' = Settled(r, resp).inflight
    /\ sent' = Settled(r, resp).sent
    /\ UNCHANGED <<cart, search, calls>>

-----------------------------------------------------------------------------
(* App.jsx: ProductList. *)

\* What ProductList returns: the loading paragraph alone, or the page with
\* the filtered products and the cart.
ProductListRender ==
    IF loading THEN [kind |-> "Loading products..."]
    ELSE [kind |-> "Product List", list |-> filteredProducts, items |-> cart]

\* The ids of the entries of an array of products or cart items.
IdsOf(arr) == {arr[i].id : i \in 1..Len(arr)}

\* onChange={(e) => setSearch(e.target.value)}; the input is part of the page.
setSearch(v) ==
    /\ ~loading
    /\ v # search
    /\ search' = v
    /\ UNCHANGED <<products, loading, cart, inflight, calls, sent>>

\* addToCart(product), from the Add to Cart button of the i-th displayed product.
addToCart(i) ==
    /\ ~loading
    /\ calls < MaxCalls
    /\ i \in 1..Len(filteredProducts)
    /\ inflight' = Overlapped(inflight) \cup
         {Request(sent + 1, "POST", 0, filteredProducts[i], cart, NoCartRequest(inflight))}
    /\ sent' = sent + 1
    /\ calls' = calls + 1
    /\ UNCHANGED <<products, loading, cart, search>>

\* The catch of addToCart that empties the cart.
CartAfterAddClearing(r, resp) ==
    IF resp.kind = "json" THEN Append(r.seen, resp.body) ELSE <<>>

\* setCart([...cart, data]), reached only when both awaits resolve.
CartAfterAdd(r, resp) ==
    IF resp.kind = "json" THEN Append(r.seen, resp.body) ELSE cart

addToCartSettled(r, resp) ==
    /\ r \in inflight
    /\ r.op = "POST"
    /\ resp \in Responses(r)
    /\ cart' = CartAfterAdd(r, resp)
    /\ inflight' = Settled(r, resp).inflight
    /\ sent' = Settled(r, resp).sent
    /\ UNCHANGED <<products, loading, search, calls>>

\* removeFromCart(item.id), from the Remove button of a cart item.
removeFromCart(id) ==
    /\ ~loading
    /\ calls < MaxCalls
    /\ id \in IdsOf(cart)
    /\ inflight' = Overlapped(inflight) \cup
         {Request(sent + 1, "DELETE", id, NoBody, cart, NoCartRequest(inflight))}
    /\ sent' = sent + 1
    /\ calls' = calls + 1
    /\ UNCHANGED <<products, loading, cart, search>>

\* A removal that stops at the first entry with the id.
RECURSIVE withoutFirst(_, _)
withoutFirst(arr, id) ==
    IF arr = <<>> THEN <<>>
    ELSE IF Head(arr).id # id THEN <<Head(arr)>> \o withoutFirst(Tail(arr), id)
    ELSE Tail(arr)

\* cart.filter((item) => item.id !== id)
RECURSIVE withoutId(_, _)
withoutId(arr, id) ==
    IF arr = <<>> THEN <<>>
    ELSE IF Head(arr).id # id THEN <<Head(arr)>> \o withoutId(Tail(arr), id)
    ELSE withoutId(Tail(arr), id)

\* if (response.ok) setCart(cart.filter(...)), reached when fetch resolves.
CartAfterRemove(r, resp) ==
    IF resp.kind # "rejected" /\ resp.ok THEN withoutId(r.seen, r.key) ELSE cart

removeFromCartSettled(r, resp) ==
    /\ r \in inflight
    /\ r.op = "DELETE"
    /\ resp \in Responses(r)
    /\ cart' = CartAfterRemove(r, resp)
    /\ inflight' = Settled(r, resp).inflight
    /\ sent' = Settled(r, resp).sent
    /\ UNCHANGED <<products, loading, search, calls>>

\* The amount updateProductPrice adds to the price it sends.
PriceStep == 10

\* products.find((p) => p.id === id): the index of the first match, 0 for none.
RECURSIVE findFrom(_, _, _)
findFrom(arr, id, i) ==
    IF i > Len(arr) THEN 0
    ELSE IF arr[i].id = id THEN i
    ELSE findFrom(arr, id, i + 1)

find(arr, id) == findFrom(arr, id, 1)

\* { ...productToUpdate, price: productToUpdate.price + 10 }
updatedProduct(productToUpdate) ==
    [productToUpdate EXCEPT !.price = productToUpdate.price + PriceStep]

\* updateProductPrice(id), from the Update Price button of a displayed product,
\* or called with an id that no product has.
updateProductPrice(id) ==
    /\ ~loading
    /\ calls < MaxCalls
    /\ id \in IdsOf(filteredProducts) \/ id \notin IdsOf(products)
    /\ calls' = calls + 1
    /\ IF find(products, id) = 0
       THEN UNCHANGED <<inflight, sent>>
       ELSE /\ inflight' = inflight \cup
                 {Request(sent + 1, "PUT", id,
                          updatedProduct(products[find(products, id)]), products, FALSE)}
            /\ sent' = sent + 1
    /\ UNCHANGED <<products, loading, cart, search>>

\* products.map((product) =>
\*   product.id === id ? { ...product, price: data.price } : product)
withPrice(arr, id, data) ==
    [i \in 1..Len(arr) |->
       IF arr[i].id = id THEN [arr[i] EXCEPT !.price = data.price] ELSE arr[i]]

\* setProducts(products.map(...)), reached only when both awaits resolve.
ProductsAfterUpdate(r, resp) ==
    IF resp.kind = "json" THEN withPrice(r.seen, r.key, resp.body) ELSE products

updateProductPriceSettled(r, resp) ==
    /\ r \in inflight
    /\ r.op = "PUT"
    /\ resp \in Responses(r)
    /\ products' = ProductsAfterUpdate(r, resp)
    /\ inflight' = Settled(r, resp).inflight
    /\ sent' = Settled(r, resp).sent
    /\ UNCHANGED <<loading, cart, search, calls>>

-----------------------------------------------------------------------------
(* App.jsx: AddProductForm. *)

Added  == "Product added successfully!"
Failed == "Error adding product"

\* onChange={(e) => setName(e.target.value)}
setName(v) ==
    /\ v # name
    /\ name' = v
    /\ UNCHANGED <<price, message, inflight, calls, sent>>

\* onChange={(e) => setPrice(e.target.value)}
setPrice(v) ==
    /\ v # price
    /\ price' = v
    /\ UNCHANGED <<name, message, inflight, calls, sent>>

\* handleSubmit: both inputs are required, so the form submits only when
\* neither is empty.
handleSubmit ==
    /\ name # <<>>
    /\ price # <<>>
    /\ calls < MaxCalls
    /\ inflight' = inflight \cup
         {Request(sent + 1, "SUBMIT", 0, [name |-> name, price |-> price], <<>>, FALSE)}
    /\ sent' = sent + 1
    /\ calls' = calls + 1
    /\ UNCHANGED <<name, price, message>>

\* setMessage after both awaits resolve, or in the catch.
MessageAfterSubmit(resp) ==
    IF resp.kind = "json" THEN Added ELSE Failed

handleSubmitSettled(r, resp) ==
    /\ r \in inflight
    /\ r.op = "SUBMIT"
    /\ resp \in Responses(r)
    /\ message' = MessageAfterSubmit(resp)
    /\ inflight' = Settled(r, resp).inflight
    /\ sent' = Settled(r, resp).sent
    /\ UNCHANGED <<name, price, calls>>

-----------------------------------------------------------------------------
(* ProductList of App.jsx, mounted. *)

InitApp ==
    /\ products = <<>>
    /\ loading = TRUE
    /\ cart = <<>>
    /\ search = <<>>
    /\ name = <<>>
    /\ price = <<>>
    /\ message = ""
    /\ inflight = {FetchRequest}
    /\ calls = 0
    /\ sent = 1
    /\ last = NoLast

Init0Idle ==
    /\ products0 = <<>>
    /\ cart0 = <<>>
    /\ search0 = <<>>
    /\ inflight0 = {}

Init == InitApp /\ Init0Idle

\* The request and the response of the step.
Record(r, resp) == last' = [req |-> r, resp |-> resp]

FetchSettles ==
    \E r \in inflight : \E resp \in Responses(r) :
        fetchDataSettled(r, resp) /\ Record(r, resp) /\ UNCHANGED <<varsForm, vars0>>

Next ==
    \/ FetchSettles
    \/ \E v \in SearchInputs : setSearch(v) /\ UNCHANGED <<last, varsForm, vars0>>
    \/ \E i \in 1..Len(products) : addToCart(i) /\ UNCHANGED <<last, varsForm, vars0>>
    \/ \E r \in inflight : \E resp \in Responses(r) :
         addToCartSettled(r, resp) /\ Record(r, resp) /\ UNCHANGED <<varsForm, vars0>>
    \/ \E id \in Ids : removeFromCart(id) /\ UNCHANGED <<last, varsForm, vars0>>
    \/ \E r \in inflight : \E resp \in Responses(r) :
         removeFromCartSettled(r, resp) /\ Record(r, resp) /\ UNCHANGED <<varsForm, vars0>>
    \/ \E id \in Ids : updateProductPrice(id) /\ UNCHANGED <<last, varsForm, vars0>>
    \/ \E r \in inflight : \E resp \in Responses(r) :
         updateProductPriceSettled(r, resp) /\ Record(r, resp)
           /\ UNCHANGED <<varsForm, vars0>>

Spec == Init /\ [][Next]_vars

\* The GET either resolves or rejects: the request does not stay pending.
FairSpec == Spec /\ WF_vars(FetchSettles)

-----------------------------------------------------------------------------
(* The page of App.jsx: ProductList and AddProductForm side by side. *)

NextPage ==
    \/ \E r \in inflight : \E resp \in Responses(r) :
         fetchDataSettled(r, resp) /\ UNCHANGED <<last, varsForm, vars0>>
    \/ \E v \in SearchInputs : setSearch(v) /\ UNCHANGED <<last, varsForm, vars0>>
    \/ \E i \in 1..Len(products) : addToCart(i) /\ UNCHANGED <<last, varsForm, vars0>>
    \/ \E r \in inflight : \E resp \in Responses(r) :
         addToCartSettled(r, resp) /\ UNCHANGED <<last, varsForm, vars0>>
    \/ \E id \in Ids : removeFromCart(id) /\ UNCHANGED <<last, varsForm, vars0>>
    \/ \E r \in inflight : \E resp \in Responses(r) :
         removeFromCartSettled(r, resp) /\ UNCHANGED <<last, varsForm, vars0>>
    \/ \E id \in Ids : updateProductPrice(id) /\ UNCHANGED <<last, varsForm, vars0>>
    \/ \E r \in inflight : \E resp \in Responses(r) :
         updateProductPriceSettled(r, resp) /\ UNCHANGED <<last, varsForm, vars0>>
    \/ \E v \in NameInputs : setName(v) /\ UNCHANGED <<last, varsList, vars0>>
    \/ \E v \in PriceInputs : setPrice(v) /\ UNCHANGED <<last, varsList, vars0>>
    \/ handleSubmit /\ UNCHANGED <<last, varsList, vars0>>
    \/ \E r \in inflight : \E resp \in Responses(r) :
         handleSubmitSettled(r, resp) /\ UNCHANGED <<last, varsList, vars0>>

SpecPage == Init /\ [][NextPage]_vars

-----------------------------------------------------------------------------
(* AddProductForm of App.jsx on its own. *)

NextForm ==
    \/ \E v \in NameInputs : setName(v) /\ UNCHANGED <<last, varsList, vars0>>
    \/ \E v \in PriceInputs : setPrice(v) /\ UNCHANGED <<last, varsList, vars0>>
    \/ handleSubmit /\ UNCHANGED <<last, varsList, vars0>>
    \/ \E r \in inflight : \E resp \in Responses(r) :
         handleSubmitSettled(r, resp) /\ Record(r, resp) /\ UNCHANGED <<varsList, vars0>>

SpecForm == Init /\ [][NextForm]_vars

-----------------------------------------------------------------------------
(* The search filter on its own: any products array, any search string. *)

NamePool ==
    {<<>>, <<"a">>, <<"b">>, <<"A", "b">>, <<"b", "A">>, <<"a", "A", "b">>}

\* The arrays of at most n products.
ProductArrays(n) ==
    UNION {{[i \in 1..k |-> [id |-> i, name |-> names[i], price |-> PriceStep]] :
              names \in [1..k -> NamePool]} : k \in 0..n}

InitFilter ==
    /\ products \in ProductArrays(MaxProducts)
    /\ search \in StringsUpTo(MaxSearchLen)
    /\ loading = FALSE
    /\ cart = <<>>
    /\ name = <<>>
    /\ price = <<>>
    /\ message = ""
    /\ inflight = {}
    /\ calls = 0
    /\ sent = 1
    /\ last = NoLast
    /\ Init0Idle

NextFilter ==
    \E v \in StringsUpTo(MaxSearchLen) :
        setSearch(v) /\ UNCHANGED <<last, varsForm, vars0>>

SpecFilter == InitFilter /\ [][NextFilter]_vars

-----------------------------------------------------------------------------
(* part_000: ProductList with promise chains.  It has no loading state: the  *)
(* page, with the search box, is rendered from the start.                   *)

Request0(rid, op, key, body, seen) ==
    [rid |-> rid, op |-> op, key |-> key, body |-> body, seen |-> seen]

\* useEffect(() => { fetch(...) }, []) has run.
FetchRequest0 == Request0(1, "GET", 0, NoBody, <<>>)

\* products.filter((product) =>
\*   product.name.toLowerCase().includes(search.toLowerCase()))
filteredProducts0 == filterFrom(products0, search0, 1)

\* .then((response) => response.json()).then((data) => setProducts(data))
\* .catch(log)
ProductsAfterFetch0(resp) ==
    IF resp.kind = "json" THEN resp.body ELSE products0

fetchSettled0(r, resp) ==
    /\ r \in inflight0
    /\ r.op = "GET"
    /\ products0' = ProductsAfterFetch0(resp)
    /\ inflight0' = inflight0 \ {r}
    /\ UNCHANGED <<cart0, search0>>

\* onChange={(e) => setSearch(e.target.value)}
setSearch0(v) ==
    /\ v # search0
    /\ search0' = v
    /\ UNCHANGED <<products0, cart0, inflight0>>

\* addToCart(product), from the button of the i-th displayed product.
addToCart0(i, rid) ==
    /\ i \in 1..Len(filteredProducts0)
    /\ inflight0' = inflight0 \cup {Request0(rid, "POST", 0, filteredProducts0[i], cart0)}
    /\ UNCHANGED <<products0, cart0, search0>>

\* .then((response) => response.json()).then((data) => setCart([...cart, data]))
\* .catch(log)
CartAfterAdd0(r, resp) ==
    IF resp.kind = "json" THEN Append(r.seen, resp.body) ELSE cart0

addToCartSettled0(r, resp) ==
    /\ r \in inflight0
    /\ r.op = "POST"
    /\ cart0' = CartAfterAdd0(r, resp)
    /\ inflight0' = inflight0 \ {r}
    /\ UNCHANGED <<products0, search0>>

\* removeFromCart(item.id), from the Remove button of a cart item.
removeFromCart0(id, rid) ==
    /\ id \in IdsOf(cart0)
    /\ inflight0' = inflight0 \cup {Request0(rid, "DELETE", id, NoBody, cart0)}
    /\ UNCHANGED <<products0, cart0, search0>>

\* The removal that does not look at response.ok.
CartAfterRemoveUnchecked0(r, resp) ==
    IF resp.kind # "rejected" THEN withoutId(r.seen, r.key) ELSE cart0

\* .then((response) => { if (response.ok) setCart(cart.filter(...)) else log })
\* .catch(log)
CartAfterRemove0(r, resp) ==
    IF resp.kind # "rejected" /\ resp.ok THEN withoutId(r.seen, r.key) ELSE cart0

removeFromCartSettled0(r, resp) ==
    /\ r \in inflight0
    /\ r.op = "DELETE"
    /\ cart0' = CartAfterRemove0(r, resp)
    /\ inflight0' = inflight0 \ {r}
    /\ UNCHANGED <<products0, search0>>

\* updateProductPrice(id)
updateProductPrice0(id, rid) ==
    /\ id \in IdsOf(filteredProducts0) \/ id \notin IdsOf(products0)
    /\ IF find(products0, id) = 0
       THEN UNCHANGED inflight0
       ELSE inflight0' = inflight0 \cup
              {Request0(rid, "PUT", id, updatedProduct(products0[find(products0, id)]),
                        products0)}
    /\ UNCHANGED <<products0, cart0, search0>>

\* .then((response) => response.json())
\* .then((data) => setProducts(products.map(...))).catch(log)
ProductsAfterUpdate0(r, resp) ==
    IF resp.kind = "json" THEN withPrice(r.seen, r.key, resp.body) ELSE products0

updateProductPriceSettled0(r, resp) ==
    /\ r \in inflight0
    /\ r.op = "PUT"
    /\ products0' = ProductsAfterUpdate0(r, resp)
    /\ inflight0' = inflight0 \ {r}
    /\ UNCHANGED <<cart0, search0>>

-----------------------------------------------------------------------------
(* The two ProductLists side by side: every user event goes to both, and    *)
(* every answer of the server is delivered to the same request of both.     *)

Init0 ==
    /\ products0 = <<>>
    /\ cart0 = <<>>
    /\ search0 = <<>>
    /\ inflight0 = {FetchRequest0}

InitEquiv == InitApp /\ Init0

\* The request of part_000 that is the same fetch call as r.
Twin(r) == {r0 \in inflight0 : r0.rid = r.rid}

NextEquiv ==
    \/ \E r \in inflight : \E r0 \in Twin(r) : \E resp \in Responses(r) :
         fetchDataSettled(r, resp) /\ fetchSettled0(r0, resp)
           /\ UNCHANGED <<last, varsForm>>
    \/ \E v \in SearchInputs :
         setSearch(v) /\ setSearch0(v) /\ UNCHANGED <<last, varsForm>>
    \/ \E i \in 1..Len(products) :
         addToCart(i) /\ addToCart0(i, sent + 1) /\ UNCHANGED <<last, varsForm>>
    \/ \E r \in inflight : \E r0 \in Twin(r) : \E resp \in Responses(r) :
         addToCartSettled(r, resp) /\ addToCartSettled0(r0, resp)
           /\ UNCHANGED <<last, varsForm>>
    \/ \E id \in Ids :
         removeFromCart(id) /\ removeFromCart0(id, sent + 1) /\ UNCHANGED <<last, varsForm>>
    \/ \E r \in inflight : \E r0 \in Twin(r) : \E resp \in Responses(r) :
         removeFromCartSettled(r, resp) /\ removeFromCartSettled0(r0, resp)
           /\ UNCHANGED <<last, varsForm>>
    \/ \E id \in Ids :
         updateProductPrice(id) /\ updateProductPrice0(id, sent + 1)
           /\ UNCHANGED <<last, varsForm>>
    \/ \E r \in inflight : \E r0 \in Twin(r) : \E resp \in Responses(r) :
         updateProductPriceSettled(r, resp) /\ updateProductPriceSettled0(r0, resp)
           /\ UNCHANGED <<last, varsForm>>

SpecEquiv == InitEquiv /\ [][NextEquiv]_vars

-----------------------------------------------------------------------------
(* Properties. *)

\* The numbers of the requests in a set of requests.
Rids(reqs) == {q.rid : q \in reqs}

\* The k-th smallest element of a set of numbers.
Nth(M, k) == CHOOSE i \in M : Cardinality({j \in M : j < i}) = k - 1

\* The positions of the products whose lower-cased name contains the
\* lower-cased search string at some offset.
MatchIndexes ==
    {i \in 1..Len(products) :
       \E k \in 0..Len(products[i].name) :
          /\ k + Len(search) <= Len(products[i].name)
          /\ \A j \in 1..Len(search) :
               LowerChar(products[i].name[k + j]) = LowerChar(search[j])}

\* C1: the displayed product list is exactly the products whose name contains
\* the search string when both are lower-cased, in the order of products; with
\* an empty search string every product is displayed.
C1_DisplayedIsFiltered ==
    LET shown == ProductListRender.list
    IN  /\ ~loading
        /\ Len(shown) = Cardinality(MatchIndexes)
        /\ \A k \in 1..Len(shown) : shown[k] = products[Nth(MatchIndexes, k)]
        /\ search = <<>> => shown = products

\* C1: an upper-case search string selects the second of two products, whose
\* name holds the letter in lower case.
C1_Witness ==
    /\ search = <<"A">>
    /\ Len(products) = 2
    /\ products[1].name = <<"b">>
    /\ products[2].name = <<"b", "A">>
    /\ ProductListRender.list = <<products[2]>>

\* The request was rejected, or the JSON body its handler asks for did not parse.
Failure(r, resp) ==
    \/ resp.kind = "rejected"
    \/ r.op \in {"POST", "PUT"} /\ resp.kind = "text"

\* C2: when the call of addToCart, removeFromCart or updateProductPrice is
\* rejected or its JSON body fails to parse, the step that handles the failure
\* leaves cart, products and search as they were and issues no request.
C2_FailureChangesNothing ==
    [][\A r \in inflight : \A resp \in Responses(r) :
         ( /\ Failure(r, resp)
           /\ Record(r, resp)
           /\ \/ addToCartSettled(r, resp)
              \/ removeFromCartSettled(r, resp)
              \/ updateProductPriceSettled(r, resp) )
         => /\ cart' = cart
            /\ products' = products
            /\ search' = search
            /\ inflight' = inflight \ {r}
            /\ sent' = sent]_vars

\* C2: an add whose body did not parse has been handled with an item in the cart.
C2_Witness ==
    /\ last.req.op = "POST"
    /\ last.resp.kind = "text"
    /\ cart # <<>>
    /\ inflight = {}

\* At most one of cart, products and message differs after the step.
AtMostOneUpdate ==
    \/ cart' = cart /\ products' = products
    \/ cart' = cart /\ message' = message
    \/ products' = products /\ message' = message

\* C3: every asynchronous operation is single-shot.  The mount-time fetch is
\* one GET; an invocation of addToCart, removeFromCart, updateProductPrice (of
\* an id in products) or handleSubmit calls fetch exactly once; no other step
\* calls fetch, so a request is never issued again; and the step in which a
\* request settles applies at most one update to cart, products and message.
C3_SingleShot ==
    /\ inflight = {FetchRequest}
    /\ [][ /\ \A r \in inflight : r.rid \notin Rids(inflight') =>
                /\ Rids(inflight') = Rids(inflight) \ {r.rid}
                /\ sent' = sent
                /\ calls' = calls
                /\ AtMostOneUpdate
           /\ calls' = calls => sent' = sent /\ Rids(inflight') \subseteq Rids(inflight)
           /\ calls' # calls =>
                /\ calls' = calls + 1
                /\ cart' = cart /\ products' = products /\ message' = message
                /\ \/ /\ sent' = sent + 1
                      /\ Rids(inflight') = Rids(inflight) \cup {sent'}
                      /\ Cardinality(inflight') = Cardinality(inflight) + 1
                      /\ \A q \in inflight' : q.rid = sent' => q.op # "GET"
                   \/ /\ \E id \in Ids : id \notin IdsOf(products) /\ updateProductPrice(id)
                      /\ sent' = sent
                      /\ inflight' = inflight
         ]_vars

\* C3: a submit has failed and an add has succeeded, every invocation has made
\* one fetch call, and nothing is in flight.
C3_Witness ==
    /\ message = Failed
    /\ cart # <<>>
    /\ inflight = {}
    /\ calls = MaxCalls
    /\ sent = calls + 1

\* The POST to /add-product went through: fetch resolved with an ok status and
\* a JSON body.
Succeeded(resp) == resp.kind = "json" /\ resp.ok

\* C4: message is "" until a submit completes; when one completes it becomes
\* 'Product added successfully!' exactly when the POST was successful and
\* 'Error adding product' exactly when it failed; it has no other value, and
\* submitting changes neither name nor price.
C4_MessageTellsOutcome ==
    /\ message = ""
    /\ [](message \in {"", Added, Failed})
    /\ [][ /\ handleSubmit => name' = name /\ price' = price /\ message' = message
           /\ \A r \in inflight : \A resp \in Responses(r) :
                handleSubmitSettled(r, resp) /\ Record(r, resp) =>
                  /\ name' = name /\ price' = price
                  /\ message' = Added <=> Succeeded(resp)
                  /\ message' = Failed <=> ~Succeeded(resp)
           /\ message' # message =>
                \E r \in inflight : \E resp \in Responses(r) : handleSubmitSettled(r, resp)
         ]_vars

\* C5: loading is true at first and false from the step in which GET /products
\* settles, whatever the outcome, and never true again; data is the response
\* body on success and stays [] on failure; while loading ProductList renders
\* the loading paragraph alone; and the request settling, loading ends.
C5_Loading ==
    /\ loading = TRUE /\ products = <<>>
    /\ [](loading <=> \E r \in inflight : r.op = "GET")
    /\ [](loading => ProductListRender = [kind |-> "Loading products..."])
    /\ [][~loading => ~loading']_vars
    /\ [][\A r \in inflight : \A resp \in Responses(r) :
            fetchDataSettled(r, resp) /\ Record(r, resp) =>
              /\ loading /\ ~loading'
              /\ products' = IF resp.kind = "json" THEN resp.body ELSE <<>>]_vars
    /\ <>(~loading)

\* C5: the GET has resolved with the two products, which are now the data.
C5_Witness ==
    /\ ~loading
    /\ last.req.op = "GET"
    /\ last.resp.kind = "json"
    /\ products = last.resp.body
    /\ Len(products) = 2
    /\ ProductListRender.kind = "Product List"

\* C6: updateProductPrice(id) changes nothing but one price.  With no product
\* of that id it issues no request; otherwise its PUT carries the product at
\* its price plus 10, and when the PUT succeeds the products array keeps its
\* length, order, ids and names, the product gets the price of the response
\* and every other price stays.  The cart is never changed.
C6_OnlyOnePrice ==
    [][ /\ \A id \in Ids : updateProductPrice(id) =>
             /\ cart' = cart /\ products' = products
             /\ IF id \notin IdsOf(products)
                THEN inflight' = inflight
                ELSE \E q \in inflight' \ inflight :
                       /\ q.op = "PUT" /\ q.key = id
                       /\ \E i \in 1..Len(products) :
                            /\ products[i].id = id
                            /\ q.body = [products[i] EXCEPT !.price = products[i].price + 10]
        /\ \A r \in inflight : \A resp \in Responses(r) :
             updateProductPriceSettled(r, resp) /\ Record(r, resp) =>
               /\ cart' = cart
               /\ resp.kind = "json" =>
                    /\ Len(products') = Len(products)
                    /\ \A i \in 1..Len(products) :
                         /\ products'[i].id = products[i].id
                         /\ products'[i].name = products[i].name
                         /\ products'[i].price =
                              IF products[i].id = r.key THEN resp.body.price
                              ELSE products[i].price
      ]_vars

C8_CartAsIfSequential ==
    [][\A r \in inflight : \A resp \in Responses(r) :
         /\ addToCartSettled(r, resp) /\ Record(r, resp) /\ resp.kind = "json" =>
              cart' = Append(cart, resp.body)
         /\ removeFromCartSettled(r, resp) /\ Record(r, resp)
              /\ resp.kind # "rejected" /\ resp.ok =>
              cart' = SelectSeq(cart, LAMBDA item : item.id # r.key)]_vars

\* C9: a successful price update of one product never changes the price that
\* an earlier-completing update wrote to another product.
C9_NoPriceReverted ==
    [][\A r \in inflight : \A resp \in Responses(r) :
         updateProductPriceSettled(r, resp) /\ Record(r, resp) /\ resp.kind = "json" =>
           \A i \in 1..Len(products) :
              products[i].id # r.key =>
                /\ i <= Len(products')
                /\ products'[i].price = products[i].price]_vars

\* C10: given the same user events and the same answers in the same order, the
\* ProductList of App.jsx and the ProductList of part_000 hold the same
\* products, cart and search after every step, and once loading has ended they
\* display the same product list and cart.
C10_SameData ==
    /\ products0 = products
    /\ cart0 = cart
    /\ search0 = search
    /\ ~loading =>
         /\ ProductListRender.list = filteredProducts0
         /\ ProductListRender.items = cart0

\* C10: both hold an item in the cart, a search string and an updated price,
\* with nothing in flight.
C10_Witness ==
    /\ cart0 # <<>>
    /\ search0 # <<>>
    /\ products0 \notin Catalogs
    /\ inflight0 = {}
    /\ inflight = {}

====
